---------------------------- MODULE Spec2Model ----------------------------
(***************************************************************************)
(* Model of the docker image-info exporter (src/main.go, second program,   *)
(* lines 89-276): the driver loop of main, collectDockerMetrics,           *)
(* writeMetricsToFile and the HTTP responder goroutine.                    *)
(*                                                                         *)
(* Environment (the Docker daemon, the file system, the network) is        *)
(* nondeterministic: every call that can return an error does so or not.   *)
(* Three facts about the daemon are taken as given.  Container names are   *)
(* unique, so two entries of one listing that carry the same primary name  *)
(* are the same container summary.  The image store does not change, so    *)
(* two successful inspections of one image reference return the same       *)
(* repository tags.  Every container has at least one name, so Names[0]    *)
(* at line 167 is defined.  A daemon call that never returns is left out.  *)
(***************************************************************************)
EXTENDS Integers, Sequences, FiniteSets, TLC

\* Longest container listing the daemon returns in the model.
MaxContainers == 2

\* Longest listing under the fair specification.
LiveMaxContainers == 1

\* The value every gauge entry is set to (src/main.go:184).
GaugeValue == 1

\* The value of the -metricsFilePath flag: the default, or a directory.
FlagValues == {"", "/tmp/m"}

\* Container summaries the daemon can report (types.Container: Names,
\* ImageID, Image).  "/web-1" occurs twice: the container recreated from
\* another image between two cycles.
ContainerUniverse ==
    { [Names |-> <<"/web-1">>, ImageID |-> "sha256:abc", Image |-> "nginx:1.25"],
      [Names |-> <<"/db-1", "/web-1/db">>, ImageID |-> "sha256:def", Image |-> "sha256:def"],
      [Names |-> <<"/job-1">>, ImageID |-> "sha256:abc", Image |-> "nginx:1.25"],
      [Names |-> <<"/web-1">>, ImageID |-> "sha256:def", Image |-> "sha256:def"] }

\* The daemon's image store: the RepoTags ImageInspectWithRaw reports for an
\* image reference.  One image carries two tags, the other none.
RepoTagsOf(image) ==
    IF image = "nginx:1.25" THEN <<"nginx:1.25", "nginx:latest">> ELSE << >>

\* Result of one ImageInspectWithRaw call: an error, or the image's RepoTags.
InspectErr == [ok |-> FALSE, RepoTags |-> << >>]
InspectOk(repoTags) == [ok |-> TRUE, RepoTags |-> repoTags]

\* No metrics file on disk yet / no scrape response being written.
NoFile == [exists |-> FALSE, families |-> {}]
NoResponse == [sent |-> FALSE, families |-> {}]

VARIABLES
    metricsFilePath,  \* *metricsFilePath, fixed by flag.Parse
    alive,            \* FALSE once the process has exited (logger.Fatal)
    pc,               \* position of the main goroutine
    http,             \* responder: "off", "starting", "serving", "replying"
    gauge,            \* containerImageInfo: label values -> value
    containers,       \* the listing of the current collection cycle
    idx,              \* position of the range loop over containers
    file,             \* content of <dir>/docker_metrics.prom
    scraped,          \* body of the /metrics response being written
    \* history variables
    listOk,           \* the listing call of the current cycle succeeded
    outcome,          \* inspection results of the current cycle, per entry
    gaugeBefore,      \* gauge as the previous cycle left it
    prevListOk,       \* the listing call of the previous cycle succeeded
    same,             \* listing and inspections so far repeat the previous cycle
    prevOutcome,      \* the previous cycle's inspection results while same
    wrote,            \* writeMetricsToFile was called in this iteration
    writeErr,         \* what the last writeMetricsToFile returned
    lastErr           \* the last recoverable error of this iteration

vars == << metricsFilePath, alive, pc, http, gauge, containers, idx,
           file, scraped, listOk, outcome, gaugeBefore, prevListOk, same,
           prevOutcome, wrote, writeErr, lastErr >>

\* what one collectDockerMetrics call reads and writes
collectVars == << gauge, containers, idx, listOk, outcome, gaugeBefore,
                  prevListOk, same, prevOutcome >>

-----------------------------------------------------------------------------
(* The gauge vector *)

EmptyGauge == [l \in {} |-> GaugeValue]

\* Mutant of Reset: the vector is not cleared
ResetNothing(g) == g

\* containerImageInfo.Reset()
Reset(g) == EmptyGauge

\* Mutant of SetLabelValues: Add(1) instead of Set(1)
SetLabelValuesAdd(g, name, id, repo) ==
    LET l == [container_name |-> name, image_id |-> id, image_repo |-> repo]
    IN  [x \in (DOMAIN g) \cup {l} |->
            IF x # l THEN g[x]
            ELSE IF l \in DOMAIN g THEN g[l] + GaugeValue ELSE GaugeValue]

\* containerImageInfo.WithLabelValues(name, id, repo).Set(1)
SetLabelValues(g, name, id, repo) ==
    LET l == [container_name |-> name, image_id |-> id, image_repo |-> repo]
    IN  [x \in (DOMAIN g) \cup {l} |-> IF x = l THEN GaugeValue ELSE g[x]]

\* Mutant of ImageRepo: the fallback is the empty string
ImageRepoEmpty(repoTags) ==
    IF Len(repoTags) > 0 THEN repoTags[1] ELSE ""

\* imageRepo: the first repository tag, "unknown" without tags
ImageRepo(repoTags) ==
    IF Len(repoTags) > 0 THEN repoTags[1] ELSE "unknown"

\* One successful pass of the loop body for container c
SetContainer(g, c, repoTags) ==
    SetLabelValues(g, c.Names[1], c.ImageID, ImageRepo(repoTags))

\* Text exposition of the gauge: the metric families gathered from it.
\* A vector without entries yields no family at all.
Gather(g) ==
    IF DOMAIN g = {} THEN {}
    ELSE { [name    |-> "docker_container_image_info",
            type    |-> "gauge",
            samples |-> { [labels |-> l, value |-> g[l]] : l \in DOMAIN g }] }

\* The entries a reader parses out of an exposition
Entries(families) == UNION { f.samples : f \in families }

\* What is on disk after the single family's encoding broke off
Truncated(families) ==
    {{}} \cup UNION { { {[f EXCEPT !.samples = s]} : s \in SUBSET f.samples } :
                      f \in families }

-----------------------------------------------------------------------------
(* Listings *)

SeqsUpTo(S, n) == UNION { [1..k -> S] : k \in 0..n }

PrimaryNames(l) == { l[i].Names[1] : i \in DOMAIN l }

\* The containers of a listing, as the exporter can tell them apart
Listed(l) == { << l[i].Names[1], l[i].ImageID >> : i \in DOMAIN l }

\* Listings of at most n entries.  Names are unique: entries with the same
\* primary name are the same summary
ListingsUpTo(n) ==
    { l \in SeqsUpTo(ContainerUniverse, n) :
        \A i, j \in DOMAIN l : l[i].Names[1] = l[j].Names[1] => l[i] = l[j] }

Listings == ListingsUpTo(MaxContainers)

-----------------------------------------------------------------------------
Init ==
    /\ metricsFilePath \in FlagValues
    /\ alive = TRUE
    /\ pc = "client"
    /\ http = "off"
    /\ gauge = EmptyGauge
    /\ containers = << >>
    /\ idx = 1
    /\ file = NoFile
    /\ scraped = NoResponse
    /\ listOk = FALSE
    /\ outcome = << >>
    /\ gaugeBefore = EmptyGauge
    /\ prevListOk = FALSE
    /\ same = FALSE
    /\ prevOutcome = << >>
    /\ wrote = FALSE
    /\ writeErr = FALSE
    /\ lastErr = "none"

-----------------------------------------------------------------------------
(* main: startup *)

\* Mutant of HttpMode: the listener is started whatever the flag says
HttpModeAlways == TRUE

\* The HTTP listener is started only without a metrics file path
HttpMode == metricsFilePath = ""

\* The file is written only with a metrics file path
FileMode == metricsFilePath # ""

\* client.NewClientWithOpts succeeds
NewClientOk ==
    /\ alive /\ pc = "client"
    /\ pc' = "publisher"
    /\ UNCHANGED << metricsFilePath, alive, http, collectVars, file, scraped,
                    wrote, writeErr, lastErr >>

\* client.NewClientWithOpts fails: logger.Fatal ends the process
NewClientFail ==
    /\ alive /\ pc = "client"
    /\ alive' = FALSE
    /\ UNCHANGED << metricsFilePath, pc, http, collectVars, file, scraped,
                    wrote, writeErr, lastErr >>

\* if *metricsFilePath == "" { http.Handle; go func() {...}() } else { log }
StartPublisher ==
    /\ alive /\ pc = "publisher"
    /\ http' = IF HttpMode THEN "starting" ELSE http
    /\ pc' = "list"
    /\ UNCHANGED << metricsFilePath, alive, collectVars, file, scraped,
                    wrote, writeErr, lastErr >>

-----------------------------------------------------------------------------
(* collectDockerMetrics *)

\* Mutant of ListFail: the vector is reset before the error is looked at
ListFailAfterReset ==
    /\ alive /\ pc = "list"
    /\ pc' = "publish"
    /\ lastErr' = "list"
    /\ listOk' = FALSE
    /\ containers' = << >>
    /\ outcome' = << >>
    /\ same' = FALSE
    /\ prevOutcome' = << >>
    /\ gauge' = EmptyGauge
    /\ UNCHANGED << metricsFilePath, alive, http, idx, file, scraped,
                    gaugeBefore, prevListOk, wrote, writeErr >>

\* cli.ContainerList returns an error: log and return
ListFail ==
    /\ alive /\ pc = "list"
    /\ pc' = "publish"
    /\ lastErr' = "list"
    /\ listOk' = FALSE
    /\ containers' = << >>
    /\ outcome' = << >>
    /\ same' = FALSE
    /\ prevOutcome' = << >>
    /\ UNCHANGED << metricsFilePath, alive, http, gauge, idx, file, scraped,
                    gaugeBefore, prevListOk, wrote, writeErr >>

\* cli.ContainerList returns the listing l
ListOk(l) ==
    /\ alive /\ pc = "list"
    /\ pc' = "reset"
    /\ listOk' = TRUE
    /\ containers' = l
    /\ outcome' = << >>
    /\ same' = (prevListOk /\ l = containers)
    /\ prevOutcome' = IF same' THEN outcome ELSE << >>
    /\ UNCHANGED << metricsFilePath, alive, http, gauge, idx, file, scraped,
                    gaugeBefore, prevListOk, wrote, writeErr, lastErr >>

\* Mutant of ResetGauge: the loop starts on the vector as it is
ResetGaugeOmitted ==
    /\ alive /\ pc = "reset"
    /\ idx' = 1
    /\ pc' = "loop"
    /\ UNCHANGED << metricsFilePath, alive, http, gauge, containers, file,
                    scraped, listOk, outcome, gaugeBefore, prevListOk, same,
                    prevOutcome, wrote, writeErr, lastErr >>

\* containerImageInfo.Reset(), then the range loop starts
ResetGauge ==
    /\ alive /\ pc = "reset"
    /\ gauge' = Reset(gauge)
    /\ idx' = 1
    /\ pc' = "loop"
    /\ UNCHANGED << metricsFilePath, alive, http, containers, file,
                    scraped, listOk, outcome, gaugeBefore, prevListOk, same,
                    prevOutcome, wrote, writeErr, lastErr >>

\* history: the inspection result r at position idx repeats the previous cycle
Repeats(r) == same /\ prevOutcome[idx] = r

\* Mutant of InspectFail: return instead of continue
InspectFailReturns ==
    /\ alive /\ pc = "loop" /\ idx <= Len(containers)
    /\ outcome' = Append(outcome, InspectErr)
    /\ idx' = idx + 1
    /\ pc' = "publish"
    /\ lastErr' = "inspect"
    /\ same' = FALSE
    /\ prevOutcome' = << >>
    /\ UNCHANGED << metricsFilePath, alive, http, gauge, containers,
                    file, scraped, listOk, gaugeBefore, prevListOk, wrote,
                    writeErr >>

\* ImageInspectWithRaw fails for containers[idx]: log and continue
InspectFail ==
    /\ alive /\ pc = "loop" /\ idx <= Len(containers)
    /\ outcome' = Append(outcome, InspectErr)
    /\ idx' = idx + 1
    /\ lastErr' = "inspect"
    /\ same' = Repeats(InspectErr)
    /\ prevOutcome' = IF same' THEN prevOutcome ELSE << >>
    /\ UNCHANGED << metricsFilePath, alive, pc, http, gauge, containers,
                    file, scraped, listOk, gaugeBefore, prevListOk, wrote,
                    writeErr >>

\* Mutant of InspectSet: any repository tag is taken, not the first
InspectSetAnyTag ==
    /\ alive /\ pc = "loop" /\ idx <= Len(containers)
    /\ LET c == containers[idx]
           repoTags == RepoTagsOf(c.Image)
       IN  /\ \E k \in 0..Len(repoTags) :
                 /\ (k = 0) = (repoTags = << >>)
                 /\ gauge' = SetLabelValues(gauge, c.Names[1], c.ImageID,
                                 IF k = 0 THEN "unknown" ELSE repoTags[k])
           /\ outcome' = Append(outcome, InspectOk(repoTags))
           /\ same' = Repeats(InspectOk(repoTags))
    /\ idx' = idx + 1
    /\ prevOutcome' = IF same' THEN prevOutcome ELSE << >>
    /\ UNCHANGED << metricsFilePath, alive, pc, http, containers,
                    file, scraped, listOk, gaugeBefore, prevListOk,
                    wrote, writeErr, lastErr >>

\* ImageInspectWithRaw succeeds for containers[idx]: derive the labels, Set(1)
InspectSet ==
    /\ alive /\ pc = "loop" /\ idx <= Len(containers)
    /\ LET c == containers[idx]
           repoTags == RepoTagsOf(c.Image)
       IN  /\ gauge' = SetContainer(gauge, c, repoTags)
           /\ outcome' = Append(outcome, InspectOk(repoTags))
           /\ same' = Repeats(InspectOk(repoTags))
    /\ idx' = idx + 1
    /\ prevOutcome' = IF same' THEN prevOutcome ELSE << >>
    /\ UNCHANGED << metricsFilePath, alive, pc, http, containers,
                    file, scraped, listOk, gaugeBefore, prevListOk, wrote,
                    writeErr, lastErr >>

\* the range loop is exhausted: collectDockerMetrics returns
LoopDone ==
    /\ alive /\ pc = "loop" /\ idx > Len(containers)
    /\ pc' = "publish"
    /\ UNCHANGED << metricsFilePath, alive, http, collectVars, file, scraped,
                    wrote, writeErr, lastErr >>

-----------------------------------------------------------------------------
(* writeMetricsToFile, called from main when *metricsFilePath != "" *)

\* common to every return of writeMetricsToFile with an error
WriteReturnsErr(what) ==
    /\ alive /\ pc = "publish" /\ FileMode
    /\ pc' = "sleep"
    /\ wrote' = TRUE
    /\ writeErr' = TRUE
    /\ lastErr' = what
    /\ UNCHANGED << metricsFilePath, alive, http, collectVars, scraped >>

\* registry.Register fails: nothing was opened
WriteRegisterFail ==
    /\ WriteReturnsErr("register")
    /\ file' = file

\* Mutant of WriteOpenFail: the error is fatal
WriteOpenFailFatal ==
    /\ alive /\ pc = "publish" /\ FileMode
    /\ alive' = FALSE
    /\ wrote' = TRUE
    /\ writeErr' = TRUE
    /\ lastErr' = "open"
    /\ UNCHANGED << metricsFilePath, pc, http, collectVars, file, scraped >>

\* os.OpenFile fails: the file keeps what it held
WriteOpenFail ==
    /\ WriteReturnsErr("open")
    /\ file' = file

\* O_TRUNC has emptied the file, then gatherers.Gather fails
WriteGatherFail ==
    /\ WriteReturnsErr("gather")
    /\ file' = [exists |-> TRUE, families |-> {}]

\* O_TRUNC has emptied the file, then encoder.Encode fails part-way
WriteEncodeFail ==
    /\ WriteReturnsErr("encode")
    /\ Gather(gauge) # {}
    /\ \E part \in Truncated(Gather(gauge)) :
          file' = [exists |-> TRUE, families |-> part]

\* Mutant of WriteOk: the file is opened without O_TRUNC and appended to
WriteOkAppend ==
    /\ alive /\ pc = "publish" /\ FileMode
    /\ file' = [exists |-> TRUE, families |-> file.families \cup Gather(gauge)]
    /\ pc' = "sleep"
    /\ wrote' = TRUE
    /\ writeErr' = FALSE
    /\ UNCHANGED << metricsFilePath, alive, http, collectVars, scraped, lastErr >>

\* open with O_TRUNC, gather, encode every family, return nil
WriteOk ==
    /\ alive /\ pc = "publish" /\ FileMode
    /\ file' = [exists |-> TRUE, families |-> Gather(gauge)]
    /\ pc' = "sleep"
    /\ wrote' = TRUE
    /\ writeErr' = FALSE
    /\ UNCHANGED << metricsFilePath, alive, http, collectVars, scraped, lastErr >>

\* *metricsFilePath == "": main goes straight to the sleep
NoFileWrite ==
    /\ alive /\ pc = "publish" /\ ~FileMode
    /\ pc' = "sleep"
    /\ UNCHANGED << metricsFilePath, alive, http, collectVars, file, scraped,
                    wrote, writeErr, lastErr >>

\* time.Sleep(*interval) returns and the for loop starts over: the cycle
\* that ends here becomes the previous one
Sleep ==
    /\ alive /\ pc = "sleep"
    /\ pc' = "list"
    /\ wrote' = FALSE
    /\ writeErr' = FALSE
    /\ lastErr' = "none"
    /\ gaugeBefore' = gauge
    /\ prevListOk' = listOk
    /\ UNCHANGED << metricsFilePath, alive, http, gauge, containers, idx,
                    listOk, outcome, same, prevOutcome, file, scraped >>

-----------------------------------------------------------------------------
(* The responder goroutine *)

\* http.ListenAndServe binds the port and serves
ListenOk ==
    /\ alive /\ http = "starting"
    /\ http' = "serving"
    /\ UNCHANGED << metricsFilePath, alive, pc, collectVars, file, scraped,
                    wrote, writeErr, lastErr >>

\* http.ListenAndServe returns an error: logger.Fatal ends the process
ListenFail ==
    /\ alive /\ http = "starting"
    /\ alive' = FALSE
    /\ UNCHANGED << metricsFilePath, pc, http, collectVars, file, scraped,
                    wrote, writeErr, lastErr >>

\* GET /metrics: promhttp gathers the registered gauge vector
Scrape ==
    /\ alive /\ http = "serving"
    /\ scraped' = [sent |-> TRUE, families |-> Gather(gauge)]
    /\ http' = "replying"
    /\ UNCHANGED << metricsFilePath, alive, pc, collectVars, file, wrote,
                    writeErr, lastErr >>

\* the response has been written; the responder waits for the next request
Reply ==
    /\ alive /\ http = "replying"
    /\ scraped' = NoResponse
    /\ http' = "serving"
    /\ UNCHANGED << metricsFilePath, alive, pc, collectVars, file, wrote,
                    writeErr, lastErr >>

-----------------------------------------------------------------------------
\* one step of collectDockerMetrics, the daemon answering with a listing of L
CollectOf(L) ==
    \/ ListFail
    \/ \E l \in L : ListOk(l)
    \/ ResetGauge
    \/ InspectFail
    \/ InspectSet
    \/ LoopDone

Collect == CollectOf(Listings)

\* one step of writeMetricsToFile
WriteMetricsToFile ==
    \/ WriteRegisterFail
    \/ WriteOpenFail
    \/ WriteGatherFail
    \/ WriteEncodeFail
    \/ WriteOk

\* one step of the main goroutine
MainOf(L) ==
    \/ NewClientOk
    \/ NewClientFail
    \/ StartPublisher
    \/ CollectOf(L)
    \/ WriteMetricsToFile
    \/ NoFileWrite
    \/ Sleep

Main == MainOf(Listings)

\* one step of the responder goroutine
Responder ==
    \/ ListenOk
    \/ ListenFail
    \/ Scrape
    \/ Reply

Next == Main \/ Responder

Spec == Init /\ [][Next]_vars

\* The same program with listings of at most LiveMaxContainers entries
ShortMain == MainOf(ListingsUpTo(LiveMaxContainers))

ShortNext == ShortMain \/ Responder

\* The Go scheduler keeps running the main goroutine while it can take a step
FairSpec == Init /\ [][ShortNext]_vars /\ WF_vars(ShortMain)

-----------------------------------------------------------------------------
(* Properties *)

\* collectDockerMetrics has returned in this iteration of the driver loop
CycleDone == pc \in {"publish", "sleep"}

\* positions of the listing whose image inspection succeeded
Succeeded == { i \in DOMAIN outcome : outcome[i].ok }

\* the label combination the specification prescribes for a listed container
\* c whose inspection returned the repository tags t
Prescribed(c, t) ==
    [ container_name |-> Head(c.Names),
      image_id       |-> c.ImageID,
      image_repo     |-> IF t = << >> THEN "unknown" ELSE Head(t) ]

\* C1: after a cycle whose listing succeeded, the gauge vector holds as many
\* label combinations as there are listed containers with a successful image
\* inspection (a container reported twice is one container), each with
\* value 1.
C1_OneEntryPerInspectedContainer ==
    (CycleDone /\ listOk) =>
        /\ Cardinality(DOMAIN gauge) =
               Cardinality({ containers[i] : i \in Succeeded })
        /\ \A l \in DOMAIN gauge : gauge[l] = 1

\* C1 witness: the same container reported twice, both inspections succeed,
\* one entry.
C1_Witness ==
    /\ CycleDone /\ listOk
    /\ Len(containers) = 2 /\ containers[1] = containers[2]
    /\ Succeeded = {1, 2}
    /\ Cardinality(DOMAIN gauge) = 1

\* C2: a container listed by cycle N and not by cycle N+1 has its label
\* combination of cycle N (an entry the gauge vector held after cycle N)
\* no longer in the gauge vector after cycle N+1.
C2_StaleElimination ==
    (CycleDone /\ listOk /\ prevListOk) =>
        \A l \in DOMAIN gaugeBefore :
            << l.container_name, l.image_id >> \notin Listed(containers)
                => l \notin DOMAIN gauge

\* C2 witness: an entry of the previous cycle whose container is gone, next to
\* a container that stayed.
C2_Witness ==
    /\ CycleDone /\ listOk /\ prevListOk
    /\ DOMAIN gauge # {}
    /\ \E l \in DOMAIN gaugeBefore :
          << l.container_name, l.image_id >> \notin Listed(containers)
    /\ \E l \in DOMAIN gaugeBefore : l \in DOMAIN gauge

\* C3: a failed listing call ends the cycle with the gauge vector as it was
\* (no reset, nothing added or removed) and the process alive.
C3_ListFailureKeepsGauge ==
    [][ (pc = "list" /\ pc' # "list" /\ ~listOk') =>
            /\ gauge' = gauge
            /\ gauge' = gaugeBefore'
            /\ pc' = "publish"
            /\ alive' ]_vars

\* C3 witness: the listing failed while the gauge vector held entries.
C3_Witness ==
    /\ alive /\ pc = "publish" /\ ~listOk /\ lastErr = "list"
    /\ DOMAIN gauge # {}
    /\ gauge = gaugeBefore

\* C4: a failed inspection skips only its container: every listed container
\* is inspected, each one whose inspection succeeded has its entry with
\* value 1 after the cycle, wherever it stands relative to a failing one, and
\* a container whose inspection failed (and succeeded for no other report of
\* it) has no entry.
C4_PartialFailureIsolation ==
    (CycleDone /\ listOk) =>
        /\ Len(outcome) = Len(containers)
        /\ \A i \in DOMAIN containers :
               IF outcome[i].ok
               THEN /\ Prescribed(containers[i], outcome[i].RepoTags) \in DOMAIN gauge
                    /\ gauge[Prescribed(containers[i], outcome[i].RepoTags)] = 1
               ELSE (\A j \in Succeeded : containers[j] # containers[i]) =>
                        \A l \in DOMAIN gauge :
                            l.container_name # Head(containers[i].Names)

\* C4 witness: the first inspection fails, the second container still gets
\* its entry.
C4_Witness ==
    /\ CycleDone /\ listOk
    /\ Len(containers) = 2
    /\ ~outcome[1].ok /\ outcome[2].ok
    /\ Cardinality(DOMAIN gauge) = 1

\* C5: with a metrics file directory the HTTP responder is never started and
\* every driver iteration calls the file writer; without one the responder is
\* started and the file writer is never called.  Never both.
C5_ExclusiveModes ==
    /\ ~(http # "off" /\ (wrote \/ file.exists))
    /\ FileMode => (http = "off" /\ (pc = "sleep" => wrote))
    /\ ~FileMode => ( /\ ~wrote /\ ~file.exists
                      /\ pc \notin {"client", "publisher"} => http # "off" )

\* C5 witness: file mode, second iteration's write done, responder off.
C5_Witness ==
    /\ metricsFilePath = "/tmp/m" /\ pc = "sleep" /\ wrote
    /\ file.exists /\ http = "off" /\ prevListOk

\* C6: when writeMetricsToFile returns nil the file holds exactly the entries
\* of the gauge vector as the collection step left it.
C6_FileMirrorsGauge ==
    (pc = "sleep" /\ wrote /\ ~writeErr) =>
        /\ file.exists
        /\ Entries(file.families) =
               { [labels |-> l, value |-> gauge[l]] : l \in DOMAIN gauge }

\* C6 witness: a successful write after a cycle that dropped an entry of the
\* cycle before.
C6_Witness ==
    /\ pc = "sleep" /\ wrote /\ ~writeErr
    /\ DOMAIN gauge # {}
    /\ \E l \in DOMAIN gaugeBefore : l \notin DOMAIN gauge

\* C7: a cycle with the listing and the inspection results of the cycle
\* before it leaves the gauge vector as that cycle left it.
C7_Idempotent ==
    (CycleDone /\ same) => gauge = gaugeBefore

\* C7 witness: a repeated cycle of two containers, one of them failing.
C7_Witness ==
    /\ CycleDone /\ same
    /\ Len(containers) = 2
    /\ outcome[1].ok /\ ~outcome[2].ok

\* C8: the entries are exactly those with container_name the first name,
\* image_id the summary's image id and image_repo the first repository tag,
\* or "unknown" without tags, of the containers inspected successfully.
C8_LabelDerivation ==
    (pc \in {"loop", "publish", "sleep"} /\ listOk) =>
        DOMAIN gauge =
            { Prescribed(containers[i], outcome[i].RepoTags) : i \in Succeeded }

\* C8 witness: one image without tags, one with two.
C8_Witness ==
    /\ CycleDone /\ listOk
    /\ \E l \in DOMAIN gauge : l.image_repo = "unknown"
    /\ \E l \in DOMAIN gauge :
          /\ l.container_name = "/web-1"
          /\ l.image_id = "sha256:abc"
          /\ l.image_repo = "nginx:1.25"

\* the order of the driver loop, and what may end the process
DriverOrder ==
    /\ pc = "list" => pc' \in {"list", "reset", "publish"}
    /\ pc = "reset" => pc' \in {"reset", "loop"}
    /\ pc = "loop" => pc' \in {"loop", "publish"}
    /\ pc = "publish" => pc' \in {"publish", "sleep"}
    /\ pc = "sleep" => pc' \in {"sleep", "list"}
    /\ (pc = "publish" /\ pc' = "sleep") => (wrote' = FileMode)
    /\ (alive /\ ~alive') => (pc = "client" \/ http = "starting")

\* C9: the loop runs collection, file write (file mode only), sleep, in that
\* order and has no terminal state; no recoverable error ends the process,
\* and after one the next collection cycle starts.
C9_LoopNeverStops ==
    /\ [][DriverOrder]_vars
    /\ [](alive => ENABLED Main)
    /\ (lastErr # "none") ~> (pc = "list" \/ ~alive)

\* C9 witness: an iteration in which an inspection and the file write failed
\* has reached the sleep.
C9_Witness ==
    /\ alive /\ pc = "sleep" /\ writeErr
    /\ lastErr = "open"
    /\ \E i \in DOMAIN outcome : ~outcome[i].ok

=============================================================================
